---- MODULE Spec2Model ----
(***************************************************************************)
(* Model of the maze generator and solver of src/src/maze.py:              *)
(* Maze (the grid of cells), MazeDrawer (recursive-backtracking carving)   *)
(* and MazeSolver (depth-first search).  The recursion of _break_walls_r   *)
(* and _dfs_r is an explicit stack of frames.  random.shuffle puts the     *)
(* four directions in any of their 24 orders; the order is drawn one       *)
(* direction at a time, as the shuffle itself draws it: a frame keeps the  *)
(* set of directions its for-loop has not reached yet, and each iteration  *)
(* takes any one of them.  Every order of the four directions is a run of  *)
(* the loop and every run of the loop is one of the orders.  Iterations on *)
(* a direction that points out of the grid change no state and are left    *)
(* out.  A reference to a Cell object is the pair (col, row) of the place  *)
(* that holds it.                                                          *)
(* Maze(seed=...) seeds the module-level generator of random when the seed *)
(* is truthy; from then on every shuffle is the next one of the seeded     *)
(* stream.  The calls of _break_walls_r / _dfs_r and of Cell.draw_move of  *)
(* the run in progress are recorded in entered and moves.                  *)
(* The two setattr calls that carve a passage run without any call to the  *)
(* renderer between them, so they are one step.                            *)
(* Spec drives the three classes by a caller that makes one call at a      *)
(* time.  WindowSpec is the window of src/src/m.py: its redraw runs the    *)
(* commands of waiting button clicks inside a solve run.                   *)
(***************************************************************************)
EXTENDS Integers, Sequences, FiniteSets, TLC

VARIABLES
    pc,          \* where the run is: which call is in progress, or "idle"
    args,        \* the arguments Maze() was called with
    maze,        \* the Maze object (exists = FALSE: none was produced)
    cells,       \* maze._cells, indexed [col][row] from 0
    stack,       \* the active frames of _break_walls_r or _dfs_r
    retval,      \* the value a _dfs_r call has just returned
    result,      \* what the latest solve() returned
    last,        \* the latest get_cell / reset_visited_cells call and its outcome
    rounds,      \* the number of solve() calls so far
    startClean,  \* the latest solve() started with every cell unvisited
    resets,      \* the number of reset_visited_cells() calls in a row
    rng,         \* the module-level generator of random: seeded or not
    entered,     \* per cell, the calls of _break_walls_r / _dfs_r of the run in progress
    moves,       \* the Cell.draw_move calls of the solve() in progress, in order
    input        \* the entries of the rows/columns fields and what the check made of them

vars == <<pc, args, maze, cells, stack, retval, result, last, rounds, startClean, resets,
          rng, entered, moves, input>>

\* ---------------------------------------------------------------- bounds
\* the largest grid: MaxCols x MaxRows, of at most MaxCells cells
MaxCols == 4
MaxRows == 4
MaxCells == 7
\* solve() calls and consecutive reset_visited_cells() calls of one run
MaxRounds == 2
MaxResets == 2

\* cell size used by the callers of Maze (20 pixels below 25 columns/rows)
CellSize == 20

\* values handed to Maze(): zero and negative ones included
ColInputs == -1 .. MaxCols
RowInputs == -1 .. MaxRows
SizeInputs == {-1, 0, CellSize}
\* seed=None, the default, is written NoSeed.  "if seed:" takes seed=None and
\* seed=0 the same way, so the runs without a seed are those drawn with seed=0
NoSeed == -1
SeedInputs == {0, 1}
\* coordinates handed to get_cell: from below 0 to just past the last column
\* and row of the grid at hand
ColProbes == -1 .. MaxCols
RowProbes == -1 .. MaxRows

\* ---------------------------------------------------------------- Cell
\* directions = ["top", "right", "bottom", "left"]
Directions == {"top", "right", "bottom", "left"}


\* has_{direction}_wall
WallField(d) ==
    CASE d = "top" -> "has_top_wall"
      [] d = "right" -> "has_right_wall"
      [] d = "bottom" -> "has_bottom_wall"
      [] d = "left" -> "has_left_wall"

\* the coordinate fields are None until the cell is drawn
NoneCoord == -1

\* Cell.__init__
NewCell ==
    [has_left_wall |-> TRUE, has_top_wall |-> TRUE, has_right_wall |-> TRUE,
     has_bottom_wall |-> TRUE, x1 |-> NoneCoord, y1 |-> NoneCoord,
     x2 |-> NoneCoord, y2 |-> NoneCoord, visited |-> FALSE]

\* ---------------------------------------------------------------- Maze
NoMaze ==
    [exists |-> FALSE, x_start |-> 0, y_start |-> 0, num_cols |-> 0, num_rows |-> 0,
     cell_width |-> 0, cell_height |-> 0]

\* the checks of Maze.__init__, in their order
init_skips_height(num_cols, num_rows, cell_width, cell_height) ==
    \/ num_cols <= 0
    \/ num_rows <= 0
    \/ cell_width <= 0

MazeInitRaises(num_cols, num_rows, cell_width, cell_height) ==
    \/ num_cols <= 0
    \/ num_rows <= 0
    \/ cell_width <= 0
    \/ cell_height <= 0

\* the opposite wall of each direction, as get_neighbor_coords pairs them
Opposite(d) ==
    CASE d = "top" -> "bottom" [] d = "bottom" -> "top"
      [] d = "left" -> "right" [] d = "right" -> "left"

\* Maze.get_neighbor_coords
get_neighbor_coords(col, row, direction) ==
    CASE direction = "top" -> [col |-> col, row |-> row - 1, opp |-> "bottom"]
      [] direction = "right" -> [col |-> col + 1, row |-> row, opp |-> "left"]
      [] direction = "bottom" -> [col |-> col, row |-> row + 1, opp |-> "top"]
      [] direction = "left" -> [col |-> col - 1, row |-> row, opp |-> "right"]

\* an index a Python list of length n accepts (negative ones count from the end)
ListIndexOk(n, i) == -n <= i /\ i < n

\* the place a Python list of length n reads for index i
ListIndex(n, i) == IF i < 0 THEN n + i ELSE i

\* len(self._cells), and len(self._cells[col])
NumStoredCols(cs) == Cardinality(DOMAIN cs)
NumStoredRows(cs, c) == Cardinality(DOMAIN cs[c])

\* self._cells[col][row]: the place read, or IndexError
Subscript(cs, col, row) ==
    IF ~ListIndexOk(NumStoredCols(cs), col)
    THEN [kind |-> "IndexError", col |-> -1, row |-> -1]
    ELSE LET c == ListIndex(NumStoredCols(cs), col) IN
         IF ~ListIndexOk(NumStoredRows(cs, c), row)
         THEN [kind |-> "IndexError", col |-> -1, row |-> -1]
         ELSE [kind |-> "cell", col |-> c, row |-> ListIndex(NumStoredRows(cs, c), row)]

get_cell_norowcheck(m, cs, col, row) ==
    IF 0 <= col /\ col < m.num_cols
    THEN Subscript(cs, col, row)
    ELSE [kind |-> "None", col |-> -1, row |-> -1]

\* Maze.get_cell
get_cell(m, cs, col, row) ==
    IF 0 <= row /\ row < m.num_rows /\ 0 <= col /\ col < m.num_cols
    THEN Subscript(cs, col, row)
    ELSE [kind |-> "None", col |-> -1, row |-> -1]

\* Maze.start_cell and Maze.end_cell
start_cell(m, cs) ==
    IF NumStoredCols(cs) = 0
    THEN [kind |-> "None", col |-> -1, row |-> -1]
    ELSE Subscript(cs, 0, 0)

end_cell(m, cs) ==
    IF NumStoredCols(cs) = 0
    THEN [kind |-> "None", col |-> -1, row |-> -1]
    ELSE Subscript(cs, m.num_cols - 1, m.num_rows - 1)

\* Maze.cells setter
SetCells(m, cs, new_cells) ==
    IF NumStoredCols(new_cells) = m.num_cols THEN new_cells ELSE cs

reset_skips_last_col(m, cs) ==
    [c \in DOMAIN cs |-> [r \in DOMAIN cs[c] |->
        IF c \in 0 .. (m.num_cols - 2) /\ r \in 0 .. (m.num_rows - 1)
        THEN [cs[c][r] EXCEPT !.visited = FALSE]
        ELSE cs[c][r]]]

reset_toggles(m, cs) ==
    [c \in DOMAIN cs |-> [r \in DOMAIN cs[c] |->
        IF c \in 0 .. (m.num_cols - 1) /\ r \in 0 .. (m.num_rows - 1)
        THEN [cs[c][r] EXCEPT !.visited = ~@]
        ELSE cs[c][r]]]

reset_skips_start(m, cs) ==
    [c \in DOMAIN cs |-> [r \in DOMAIN cs[c] |->
        IF c \in 1 .. (m.num_cols - 1) \/ r \in 1 .. (m.num_rows - 1)
        THEN [cs[c][r] EXCEPT !.visited = FALSE]
        ELSE cs[c][r]]]

reset_restores_walls(m, cs) ==
    [c \in DOMAIN cs |-> [r \in DOMAIN cs[c] |->
        IF c \in 0 .. (m.num_cols - 1) /\ r \in 0 .. (m.num_rows - 1)
        THEN [cs[c][r] EXCEPT !.visited = FALSE, !.has_top_wall = TRUE,
                              !.has_left_wall = TRUE]
        ELSE cs[c][r]]]

\* Maze.reset_visited_cells, on a populated container
reset_visited_cells(m, cs) ==
    [c \in DOMAIN cs |-> [r \in DOMAIN cs[c] |->
        IF c \in 0 .. (m.num_cols - 1) /\ r \in 0 .. (m.num_rows - 1)
        THEN [cs[c][r] EXCEPT !.visited = FALSE]
        ELSE cs[c][r]]]

\* ---------------------------------------------------------------- MazeDrawer
init_cells_row_short(m) ==
    [c \in 0 .. (m.num_cols - 1) |-> [r \in 0 .. (m.num_rows - 2) |-> NewCell]]

\* MazeDrawer._init_cells: the list of num_cols lists of num_rows new cells
NewCells(m) ==
    [c \in 0 .. (m.num_cols - 1) |-> [r \in 0 .. (m.num_rows - 1) |-> NewCell]]

\* MazeDrawer._draw_cell and Cell.draw_wall: the corners of the cell
DrawCell(m, cs, x, y) ==
    LET x1 == m.x_start + x * m.cell_width
        y1 == m.y_start + y * m.cell_height
    IN [cs EXCEPT ![x][y] =
          [@ EXCEPT !.x1 = x1, !.y1 = y1,
                    !.x2 = x1 + m.cell_width, !.y2 = y1 + m.cell_height]]

\* MazeDrawer._create_cells: _draw_cell on every cell
DrawAll(m, cs) ==
    [c \in DOMAIN cs |-> [r \in DOMAIN cs[c] |-> DrawCell(m, cs, c, r)[c][r]]]

entrance_on_left(m, cs) ==
    LET opened == [cs EXCEPT ![0][0].has_left_wall = FALSE, ![0][0].visited = TRUE,
                             ![m.num_cols - 1][m.num_rows - 1].has_bottom_wall = FALSE]
    IN DrawCell(m, DrawCell(m, opened, 0, 0), m.num_cols - 1, m.num_rows - 1)

entrance_only(m, cs) ==
    LET opened == [cs EXCEPT ![0][0].has_top_wall = FALSE, ![0][0].visited = TRUE]
    IN DrawCell(m, DrawCell(m, opened, 0, 0), m.num_cols - 1, m.num_rows - 1)

\* MazeDrawer._create_entrance_and_exit
create_entrance_and_exit(m, cs) ==
    LET top == get_cell(m, cs, 0, 0)
        bottom == get_cell(m, cs, m.num_cols - 1, m.num_rows - 1)
        a == [cs EXCEPT ![top.col][top.row].has_top_wall = FALSE]
        b == [a EXCEPT ![bottom.col][bottom.row].has_bottom_wall = FALSE]
        c == [b EXCEPT ![top.col][top.row].visited = TRUE]
    IN DrawCell(m, DrawCell(m, c, 0, 0), m.num_cols - 1, m.num_rows - 1)

\* the boundary check of _break_walls_r and _dfs_r
InBounds(m, col, row) ==
    0 <= row /\ row < m.num_rows /\ 0 <= col /\ col < m.num_cols

\* the directions of (col, row) that pass the boundary check
InGrid(m, col, row) ==
    {d \in Directions :
        LET n == get_neighbor_coords(col, row, d) IN InBounds(m, n.col, n.row)}

\* ---------------------------------------------------------------- random
\* the generator nobody has seeded: its state is not known
Unseeded == [seeded |-> FALSE, key |-> 0, n |-> 0]

\* Maze.__init__: if seed: self._seed = random.seed(cell_width)
SeedRandom(r, seed, cell_width) ==
    IF seed # NoSeed /\ seed # 0
    THEN [seeded |-> TRUE, key |-> cell_width, n |-> 0]
    ELSE r

\* the orders random.shuffle(["top", "right", "bottom", "left"]) gives, call
\* after call, once random.seed(20) has run (CPython 3)
ShuffleTable ==
    <<
      <<"bottom", "top", "left", "right">>, <<"right", "top", "left", "bottom">>,
      <<"left", "bottom", "right", "top">>, <<"right", "bottom", "left", "top">>,
      <<"top", "left", "right", "bottom">>, <<"right", "bottom", "top", "left">>,
      <<"top", "right", "left", "bottom">>, <<"left", "top", "right", "bottom">>,
      <<"bottom", "top", "right", "left">>, <<"left", "top", "bottom", "right">>,
      <<"right", "bottom", "left", "top">>, <<"bottom", "right", "left", "top">>,
      <<"top", "left", "right", "bottom">>, <<"left", "top", "bottom", "right">>,
      <<"bottom", "left", "right", "top">>, <<"left", "top", "bottom", "right">>,
      <<"bottom", "right", "left", "top">>, <<"left", "right", "top", "bottom">>,
      <<"bottom", "right", "top", "left">>, <<"right", "bottom", "top", "left">>,
      <<"right", "top", "bottom", "left">>, <<"top", "left", "bottom", "right">>,
      <<"right", "left", "top", "bottom">>, <<"right", "left", "bottom", "top">>,
      <<"right", "bottom", "top", "left">>, <<"bottom", "right", "left", "top">>,
      <<"left", "right", "bottom", "top">>, <<"bottom", "top", "right", "left">>,
      <<"bottom", "left", "top", "right">>, <<"right", "left", "top", "bottom">>,
      <<"bottom", "right", "left", "top">>, <<"right", "top", "left", "bottom">>,
      <<"right", "top", "left", "bottom">>, <<"right", "bottom", "left", "top">>,
      <<"right", "bottom", "left", "top">>, <<"bottom", "top", "left", "right">>,
      <<"bottom", "top", "right", "left">>, <<"right", "bottom", "top", "left">>,
      <<"left", "bottom", "top", "right">>, <<"bottom", "left", "right", "top">>,
      <<"right", "bottom", "top", "left">>, <<"bottom", "top", "right", "left">>,
      <<"bottom", "left", "top", "right">>, <<"bottom", "right", "top", "left">>,
      <<"top", "bottom", "left", "right">>, <<"left", "top", "bottom", "right">>,
      <<"bottom", "left", "right", "top">>, <<"top", "bottom", "right", "left">>,
      <<"bottom", "top", "right", "left">>, <<"left", "right", "bottom", "top">>,
      <<"left", "bottom", "top", "right">>, <<"right", "top", "left", "bottom">>,
      <<"top", "bottom", "left", "right">>, <<"right", "bottom", "left", "top">>,
      <<"left", "top", "bottom", "right">>, <<"right", "top", "bottom", "left">>,
      <<"top", "left", "right", "bottom">>, <<"right", "left", "bottom", "top">>,
      <<"top", "right", "bottom", "left">>, <<"bottom", "top", "right", "left">>,
      <<"bottom", "right", "top", "left">>, <<"right", "left", "top", "bottom">>,
      <<"top", "left", "right", "bottom">>, <<"right", "bottom", "top", "left">>
    >>

\* random.shuffle(directions): the order it gives, << >> when it can be any
\* (the generator is unseeded); only CellSize ever seeds the generator
Shuffled(r) == IF r.seeded THEN ShuffleTable[r.n + 1] ELSE << >>

\* the generator after one more shuffle
AfterShuffle(r) == IF r.seeded THEN [r EXCEPT !.n = @ + 1] ELSE r

\* a frame of _break_walls_r or _dfs_r on (col, row): order is what the
\* shuffle gave, dirs are the directions the for-loop has still to reach,
\* cur the direction _dfs_r has moved in.
\* An iteration on a direction that fails the boundary check changes nothing
\* (_break_walls_r draws the cell again, at the same place), so the frame
\* keeps the directions that pass it.
Frame(col, row, st, order) ==
    [col |-> col, row |-> row, dirs |-> InGrid(maze, col, row), cur |-> "none",
     st |-> st, order |-> order]

\* the place of direction d in the order o
Pos(o, d) == CHOOSE i \in 1 .. Len(o) : o[i] = d

\* for direction in directions: d can be the next direction of the loop of f
IsNextDirection(f, d) ==
    /\ d \in f.dirs
    /\ f.order # << >> => \A e \in f.dirs : Pos(f.order, d) <= Pos(f.order, e)

Top == stack[Len(stack)]
Pop == SubSeq(stack, 1, Len(stack) - 1)
SetTop(f) == [stack EXCEPT ![Len(stack)] = f]

carve_one_side(cs, col, row, direction, n) ==
    [cs EXCEPT ![col][row][WallField(direction)] = FALSE]

carve_closes_behind(cs, col, row, direction, n) ==
    [cs EXCEPT ![col][row][WallField(direction)] = FALSE,
               ![n.col][n.row][WallField(n.opp)] = FALSE,
               ![col][row][WallField(n.opp)] = TRUE]

\* the two setattr calls of _break_walls_r
carve(cs, col, row, direction, n) ==
    [cs EXCEPT ![col][row][WallField(direction)] = FALSE,
               ![n.col][n.row][WallField(n.opp)] = FALSE]

carve_stops_before_last_row(m, cs, n) ==
    /\ 0 <= n.row /\ n.row < m.num_rows - 1 /\ 0 <= n.col /\ n.col < m.num_cols
    /\ LET g == get_cell(m, cs, n.col, n.row)
       IN g.kind = "cell" /\ ~cs[g.col][g.row].visited

carve_skips_last_col(m, cs, n) ==
    /\ 0 <= n.row /\ n.row < m.num_rows /\ 0 <= n.col /\ n.col < m.num_cols - 1
    /\ LET g == get_cell(m, cs, n.col, n.row)
       IN g.kind = "cell" /\ ~cs[g.col][g.row].visited

\* _break_walls_r: the neighbour is in the grid, is a cell and is unvisited
CanCarve(m, cs, n) ==
    /\ InBounds(m, n.col, n.row)
    /\ LET g == get_cell(m, cs, n.col, n.row)
       IN g.kind = "cell" /\ ~cs[g.col][g.row].visited


\* _break_walls_r: current_cell.visited = True
MarkVisited(cs, col, row) == [cs EXCEPT ![col][row].visited = TRUE]

\* ---------------------------------------------------------------- MazeSolver
dfs_never_marks(cs, col, row) == cs

\* _dfs_r: current_cell.visited = True, the only write of _dfs_r to a cell
DfsMark(cs, col, row) == [cs EXCEPT ![col][row].visited = TRUE]

dfs_checks_same_side(m, cs, n) ==
    /\ InBounds(m, n.col, n.row)
    /\ LET g == get_cell(m, cs, n.col, n.row)
       IN /\ g.kind = "cell"
          /\ ~cs[g.col][g.row].visited
          /\ ~cs[g.col][g.row][WallField(Opposite(n.opp))]

dfs_ignores_walls(m, cs, n) ==
    /\ InBounds(m, n.col, n.row)
    /\ LET g == get_cell(m, cs, n.col, n.row)
       IN g.kind = "cell" /\ ~cs[g.col][g.row].visited

dfs_ignores_visited(m, cs, n) ==
    /\ InBounds(m, n.col, n.row)
    /\ LET g == get_cell(m, cs, n.col, n.row)
       IN g.kind = "cell" /\ ~cs[g.col][g.row][WallField(n.opp)]

\* _dfs_r: the neighbour is in the grid, is a cell, is unvisited and its wall
\* towards the current cell is cleared
CanMove(m, cs, n) ==
    /\ InBounds(m, n.col, n.row)
    /\ LET g == get_cell(m, cs, n.col, n.row)
       IN /\ g.kind = "cell"
          /\ ~cs[g.col][g.row].visited
          /\ ~cs[g.col][g.row][WallField(n.opp)]

is_end_cell_by_size(m, cs, col, row) ==
    col = m.num_cols /\ row = m.num_rows

\* current_cell is self._maze.end_cell
IsEndCell(m, cs, col, row) ==
    LET e == end_cell(m, cs) IN e.kind = "cell" /\ e.col = col /\ e.row = row

\* Cell.draw_move hands one line to the canvas: one more move event
draw_move(ms, e) == Append(ms, e)

forward_move_reversed(f, n) ==
    [from |-> <<n.col, n.row>>, to |-> <<f.col, f.row>>, undo |-> FALSE]

\* current_cell.draw_move(neighbor)
ForwardMove(f, n) ==
    [from |-> <<f.col, f.row>>, to |-> <<n.col, n.row>>, undo |-> FALSE]

backtrack_from_current(f, n) ==
    [from |-> <<f.col, f.row>>, to |-> <<n.col, n.row>>, undo |-> TRUE]

\* neighbor.draw_move(current_cell, undo=True)
BacktrackMove(f, n) ==
    [from |-> <<n.col, n.row>>, to |-> <<f.col, f.row>>, undo |-> TRUE]

never_returns_at_once(rv) == FALSE

\* if self._dfs_r(neighbor_col, neighbor_row): return True
ReturnsAtOnce(rv) == rv = "True"

\* ---------------------------------------------------------------- input
\* what is typed in the columns and rows fields, one character per element,
\* with what it denotes: an integer or no number at all
EntryTable ==
    << [text |-> << >>, number |-> FALSE, value |-> 0],
       [text |-> <<"1">>, number |-> TRUE, value |-> 1],
       [text |-> <<"2">>, number |-> TRUE, value |-> 2],
       [text |-> <<"3">>, number |-> TRUE, value |-> 3],
       [text |-> <<"0", "2">>, number |-> TRUE, value |-> 2],
       [text |-> <<" ", "7">>, number |-> TRUE, value |-> 7],
       [text |-> <<"+", "9">>, number |-> TRUE, value |-> 9],
       [text |-> <<"5", "0">>, number |-> TRUE, value |-> 50],
       [text |-> <<"5", "1">>, number |-> TRUE, value |-> 51],
       [text |-> <<"-", "3">>, number |-> TRUE, value |-> -3],
       [text |-> <<"2", ".", "5">>, number |-> FALSE, value |-> 0],
       [text |-> <<"i", "n">>, number |-> FALSE, value |-> 0] >>

EntryInputs == {EntryTable[i].text : i \in DOMAIN EntryTable}

DigitChars == <<"0", "1", "2", "3", "4", "5", "6", "7", "8", "9">>
IsDigit(ch) == \E i \in DOMAIN DigitChars : DigitChars[i] = ch
DigitValue(ch) == (CHOOSE i \in DOMAIN DigitChars : DigitChars[i] = ch) - 1

\* int() skips the blanks around the text
RECURSIVE lstrip(_)
lstrip(s) == IF s # << >> /\ Head(s) = " " THEN lstrip(Tail(s)) ELSE s

RECURSIVE rstrip(_)
rstrip(s) ==
    IF s # << >> /\ s[Len(s)] = " " THEN rstrip(SubSeq(s, 1, Len(s) - 1)) ELSE s

\* the number a run of digits writes in base ten
RECURSIVE DecimalValue(_)
DecimalValue(s) ==
    IF s = << >> THEN 0
    ELSE 10 * DecimalValue(SubSeq(s, 1, Len(s) - 1)) + DigitValue(s[Len(s)])

\* int(text): blanks, an optional sign, then digits and nothing else; any
\* other text raises ValueError
int(text) ==
    LET t == rstrip(lstrip(text))
        signed == t # << >> /\ Head(t) \in {"+", "-"}
        digits == IF signed THEN Tail(t) ELSE t
    IN IF digits # << >> /\ \A i \in DOMAIN digits : IsDigit(digits[i])
       THEN [kind |-> "int",
             value |-> IF signed /\ Head(t) = "-" THEN 0 - DecimalValue(digits)
                       ELSE DecimalValue(digits)]
       ELSE [kind |-> "ValueError", value |-> 0]

\* what a check of the two entries gives: the pair of numbers, or ValueError
Rejected == [kind |-> "ValueError", cols |-> 0, rows |-> 0]
Accepted(cols, rows) == [kind |-> "ok", cols |-> cols, rows |-> rows]

\* CanvasFrame._validate_input
validate_input(cols_text, rows_text) ==
    LET cols_entry == int(cols_text)
        rows_entry == int(rows_text)
    IN IF cols_entry.kind = "ValueError" \/ rows_entry.kind = "ValueError"
       THEN Rejected
       ELSE IF \/ cols_entry.value < 2 \/ cols_entry.value > 50
               \/ rows_entry.value < 2 \/ rows_entry.value > 50
            THEN Rejected
            ELSE Accepted(cols_entry.value, rows_entry.value)

is_valid_input_from_1(value) == ~(1 > value \/ value > 50)

\* utils.is_valid_input
is_valid_input(value) == ~(2 > value \/ value > 50)

\* utils.calculate_window_sizes: the cols and rows it returns, or ValueError
calculate_window_sizes(cols, rows) ==
    IF ~is_valid_input(cols) THEN Rejected
    ELSE IF ~is_valid_input(rows) THEN Rejected
    ELSE Accepted(cols, rows)

\* Window.draw_maze: int() of the rows entry, int() of the columns entry,
\* then calculate_window_sizes
draw_maze_sizes(cols_text, rows_text) ==
    LET rows_entry == int(rows_text)
        cols_entry == int(cols_text)
    IN IF rows_entry.kind = "ValueError" \/ cols_entry.kind = "ValueError"
       THEN Rejected
       ELSE calculate_window_sizes(cols_entry.value, rows_entry.value)

\* ---------------------------------------------------------------- state
NoCall == [op |-> "none", col |-> 0, row |-> 0,
           out |-> [kind |-> "None", col |-> -1, row |-> -1]]

NoArgs == [num_cols |-> 0, num_rows |-> 0, cell_width |-> 0, cell_height |-> 0,
           seed |-> NoSeed]

\* nothing has been typed and checked
NoInput == [cols_entry |-> << >>, rows_entry |-> << >>, by |-> "none",
            out |-> [kind |-> "none", cols |-> 0, rows |-> 0]]

\* no run is in progress: no call is recorded
NoCalls == << >>

\* the places of the grid
Places == (0 .. (maze.num_cols - 1)) \X (0 .. (maze.num_rows - 1))

\* the top-level call _break_walls_r(0, 0) or _dfs_r(0, 0) has been made
FirstCall == [p \in Places |-> IF p = <<0, 0>> THEN 1 ELSE 0]

\* one more call, on (col, row)
Called(e, col, row) == [e EXCEPT ![<<col, row>>] = @ + 1]

Init ==
    /\ pc = "start"
    /\ args = NoArgs
    /\ maze = NoMaze
    /\ cells = << >>
    /\ stack = << >>
    /\ retval = "none"
    /\ result = "none"
    /\ last = NoCall
    /\ rounds = 0
    /\ startClean = FALSE
    /\ resets = 0
    /\ rng = Unseeded
    /\ entered = NoCalls
    /\ moves = << >>
    /\ input = NoInput

\* Maze(0, 0, num_cols, num_rows, cell_width, cell_height, seed)
NewMaze(num_cols, num_rows, cell_width, cell_height, seed) ==
    /\ pc = "start"
    /\ args' = [num_cols |-> num_cols, num_rows |-> num_rows,
                cell_width |-> cell_width, cell_height |-> cell_height,
                seed |-> seed]
    /\ IF MazeInitRaises(num_cols, num_rows, cell_width, cell_height)
       THEN /\ pc' = "error"
            /\ UNCHANGED <<maze, rng>>
       ELSE /\ pc' = "constructed"
            /\ maze' = [exists |-> TRUE, x_start |-> 0, y_start |-> 0,
                        num_cols |-> num_cols, num_rows |-> num_rows,
                        cell_width |-> cell_width, cell_height |-> cell_height]
            /\ rng' = SeedRandom(rng, seed, cell_width)
    /\ UNCHANGED <<cells, stack, retval, result, last, rounds, startClean, resets,
                   entered, moves, input>>

\* MazeDrawer.__init__: self._init_cells()
InitCells ==
    /\ pc = "constructed"
    /\ cells' = SetCells(maze, cells, NewCells(maze))
    /\ pc' = "cells_set"
    /\ last' = NoCall
    /\ resets' = 0
    /\ UNCHANGED <<args, maze, stack, retval, result, rounds, startClean,
                   rng, entered, moves, input>>

\* MazeDrawer.__init__: self._create_cells()
CreateCells ==
    /\ pc = "cells_set"
    /\ ~(maze.num_cols <= 0 \/ maze.num_rows <= 0)
    /\ cells' = DrawAll(maze, cells)
    /\ pc' = "cells_drawn"
    /\ UNCHANGED <<args, maze, stack, retval, result, last, rounds, startClean, resets,
                   rng, entered, moves, input>>

\* MazeDrawer.__init__: self._create_entrance_and_exit()
CreateEntranceAndExit ==
    /\ pc = "cells_drawn"
    /\ cells' = create_entrance_and_exit(maze, cells)
    /\ pc' = "entrance"
    /\ UNCHANGED <<args, maze, stack, retval, result, last, rounds, startClean, resets,
                   rng, entered, moves, input>>

\* MazeDrawer.__init__: self._break_walls_r(0, 0), up to the for-loop
BreakWallsCall ==
    /\ pc = "entrance"
    /\ cells' = MarkVisited(cells, 0, 0)
    /\ stack' = <<Frame(0, 0, "loop", Shuffled(rng))>>
    /\ rng' = AfterShuffle(rng)
    /\ entered' = FirstCall
    /\ pc' = "carving"
    /\ UNCHANGED <<args, maze, retval, result, last, rounds, startClean, resets,
                   moves, input>>

\* one iteration of the for-loop of _break_walls_r: either the walls are
\* broken and the call on the neighbour starts (it marks its cell and
\* shuffles), or the cell is drawn
BreakWallsStep(direction) ==
    /\ pc = "carving"
    /\ stack # << >>
    /\ IsNextDirection(Top, direction)
    /\ LET f == [Top EXCEPT !.dirs = @ \ {direction}]
           n == get_neighbor_coords(f.col, f.row, direction)
       IN IF CanCarve(maze, cells, n)
          THEN /\ cells' = MarkVisited(carve(cells, f.col, f.row, direction, n),
                                       n.col, n.row)
               /\ stack' = Append(SetTop(f), Frame(n.col, n.row, "loop", Shuffled(rng)))
               /\ rng' = AfterShuffle(rng)
               /\ entered' = Called(entered, n.col, n.row)
          ELSE /\ cells' = DrawCell(maze, cells, f.col, f.row)
               /\ stack' = SetTop(f)
               /\ UNCHANGED <<rng, entered>>
    /\ UNCHANGED <<args, pc, maze, retval, result, last, rounds, startClean, resets,
                   moves, input>>

\* _break_walls_r returns; its caller draws its own cell and goes on with its
\* next direction, and MazeDrawer.__init__ goes on to the reset
BreakWallsReturn ==
    /\ pc = "carving"
    /\ stack # << >>
    /\ Top.dirs = {}
    /\ stack' = Pop
    /\ IF Len(stack) = 1
       THEN /\ pc' = "carved"
            /\ UNCHANGED cells
       ELSE /\ cells' = DrawCell(maze, cells, stack[Len(stack) - 1].col,
                                 stack[Len(stack) - 1].row)
            /\ UNCHANGED pc
    /\ UNCHANGED <<args, maze, retval, result, last, rounds, startClean, resets,
                   rng, entered, moves, input>>

\* MazeDrawer.__init__: self._maze.reset_visited_cells(); the run is over
DrawerReset ==
    /\ pc = "carved"
    /\ cells' = reset_visited_cells(maze, cells)
    /\ entered' = NoCalls
    /\ pc' = "idle"
    /\ UNCHANGED <<args, maze, stack, retval, result, last, rounds, startClean, resets,
                   rng, moves, input>>

\* every cell of the container has visited == False
AllUnvisited(cs) == \A c \in DOMAIN cs : \A r \in DOMAIN cs[c] : ~cs[c][r].visited

\* MazeSolver.solve(): the call self._dfs_r(0, 0) marks the start cell
SolveCall ==
    /\ pc = "idle"
    /\ rounds < MaxRounds
    /\ rounds' = rounds + 1
    /\ startClean' = AllUnvisited(cells)
    /\ cells' = DfsMark(cells, 0, 0)
    /\ stack' = <<Frame(0, 0, "entry", << >>)>>
    /\ entered' = FirstCall
    /\ moves' = << >>
    /\ retval' = "none"
    /\ result' = "none"
    /\ last' = NoCall
    /\ resets' = 0
    /\ pc' = "solving"
    /\ UNCHANGED <<args, maze, rng, input>>

\* _dfs_r after marking its cell: return True on the end cell, else shuffle
DfsEntry ==
    /\ pc = "solving"
    /\ retval = "none"
    /\ stack # << >>
    /\ Top.st = "entry"
    /\ IF IsEndCell(maze, cells, Top.col, Top.row)
       THEN /\ stack' = Pop
            /\ retval' = "True"
            /\ UNCHANGED rng
       ELSE /\ stack' = SetTop([Top EXCEPT !.st = "loop", !.order = Shuffled(rng)])
            /\ rng' = AfterShuffle(rng)
            /\ UNCHANGED retval
    /\ UNCHANGED <<args, pc, maze, cells, result, last, rounds, startClean, resets,
                   entered, moves, input>>

\* one iteration of the for-loop of _dfs_r: either the move to the neighbour
\* is drawn and the call on it starts (it marks its cell), or the direction is
\* skipped
DfsStep(direction) ==
    /\ pc = "solving"
    /\ retval = "none"
    /\ stack # << >>
    /\ Top.st = "loop"
    /\ IsNextDirection(Top, direction)
    /\ LET f == [Top EXCEPT !.dirs = @ \ {direction}]
           n == get_neighbor_coords(f.col, f.row, direction)
       IN IF CanMove(maze, cells, n)
          THEN /\ moves' = draw_move(moves, ForwardMove(f, n))
               /\ cells' = DfsMark(cells, n.col, n.row)
               /\ stack' = Append(SetTop([f EXCEPT !.cur = direction, !.st = "call1"]),
                                  Frame(n.col, n.row, "entry", << >>))
               /\ entered' = Called(entered, n.col, n.row)
          ELSE /\ stack' = SetTop(f)
               /\ UNCHANGED <<cells, entered, moves>>
    /\ UNCHANGED <<args, pc, maze, retval, result, last, rounds, startClean, resets,
                   rng, input>>

\* the for-loop of _dfs_r is over: return False
DfsExhausted ==
    /\ pc = "solving"
    /\ retval = "none"
    /\ stack # << >>
    /\ Top.st = "loop"
    /\ Top.dirs = {}
    /\ stack' = Pop
    /\ retval' = "False"
    /\ UNCHANGED <<args, pc, maze, cells, result, last, rounds, startClean, resets,
                   rng, entered, moves, input>>

\* the first call on the neighbour returned: True is returned at once; on
\* False the move is drawn back and _dfs_r is called on the neighbour again
DfsAfterFirstCall ==
    /\ pc = "solving"
    /\ retval # "none"
    /\ stack # << >>
    /\ Top.st = "call1"
    /\ IF ReturnsAtOnce(retval)
       THEN /\ stack' = Pop
            /\ UNCHANGED <<retval, cells, entered, moves>>
       ELSE LET f == Top
                n == get_neighbor_coords(f.col, f.row, f.cur)
            IN /\ moves' = draw_move(moves, BacktrackMove(f, n))
               /\ cells' = DfsMark(cells, n.col, n.row)
               /\ stack' = Append(SetTop([f EXCEPT !.st = "call2"]),
                                  Frame(n.col, n.row, "entry", << >>))
               /\ entered' = Called(entered, n.col, n.row)
               /\ retval' = "none"
    /\ UNCHANGED <<args, pc, maze, result, last, rounds, startClean, resets,
                   rng, input>>

\* the second call on the neighbour returned: its value is dropped and the
\* for-loop goes on
DfsAfterSecondCall ==
    /\ pc = "solving"
    /\ retval # "none"
    /\ stack # << >>
    /\ Top.st = "call2"
    /\ stack' = SetTop([Top EXCEPT !.cur = "none", !.st = "loop"])
    /\ retval' = "none"
    /\ UNCHANGED <<args, pc, maze, cells, result, last, rounds, startClean, resets,
                   rng, entered, moves, input>>

\* MazeSolver.solve() returns what self._dfs_r(0, 0) returned; the run is over
SolveReturn ==
    /\ pc = "solving"
    /\ retval # "none"
    /\ stack = << >>
    /\ result' = retval
    /\ retval' = "none"
    /\ entered' = NoCalls
    /\ moves' = << >>
    /\ pc' = "idle"
    /\ UNCHANGED <<args, maze, cells, stack, last, rounds, startClean, resets,
                   rng, input>>

\* a caller's maze.reset_visited_cells(); on a Maze whose container is still
\* empty the first self._cells[col][row] raises IndexError
ResetVisited ==
    /\ pc \in {"constructed", "idle"}
    /\ resets < MaxResets
    /\ resets' = resets + 1
    /\ cells' = reset_visited_cells(maze, cells)
    /\ last' = [NoCall EXCEPT !.op = "reset_visited_cells",
                              !.out = IF \E c \in 0 .. (maze.num_cols - 1) :
                                         \E r \in 0 .. (maze.num_rows - 1) :
                                            Subscript(cells, c, r).kind = "IndexError"
                                      THEN [kind |-> "IndexError", col |-> -1, row |-> -1]
                                      ELSE [kind |-> "None", col |-> -1, row |-> -1]]
    /\ UNCHANGED <<args, pc, maze, stack, retval, result, rounds, startClean,
                   rng, entered, moves, input>>

\* a caller's maze.get_cell(col, row)
GetCell(col, row) ==
    /\ pc \in {"constructed", "idle"}
    /\ last' = [op |-> "get_cell", col |-> col, row |-> row,
                out |-> get_cell(maze, cells, col, row)]
    /\ resets' = 0
    /\ UNCHANGED <<args, pc, maze, cells, stack, retval, result, rounds, startClean,
                   rng, entered, moves, input>>

Next ==
    \/ \E nc \in ColInputs, nr \in RowInputs, cw \in SizeInputs, ch \in SizeInputs,
          seed \in SeedInputs :
          /\ nc * nr <= MaxCells
          /\ NewMaze(nc, nr, cw, ch, seed)
    \/ InitCells
    \/ CreateCells
    \/ CreateEntranceAndExit
    \/ BreakWallsCall
    \/ \E d \in Directions : BreakWallsStep(d)
    \/ BreakWallsReturn
    \/ DrawerReset
    \/ SolveCall
    \/ DfsEntry
    \/ \E d \in Directions : DfsStep(d)
    \/ DfsExhausted
    \/ DfsAfterFirstCall
    \/ DfsAfterSecondCall
    \/ SolveReturn
    \/ ResetVisited
    \/ \E col \in ColProbes, row \in RowProbes :
          /\ col <= maze.num_cols /\ row <= maze.num_rows
          /\ GetCell(col, row)

Spec == Init /\ [][Next]_vars

\* solve() runs to its end once called: nothing but the 0.1 s pauses of
\* _animate(path=True) stands between two steps of _dfs_r
SolveRun ==
    \/ DfsEntry
    \/ \E d \in Directions : DfsStep(d)
    \/ DfsExhausted
    \/ DfsAfterFirstCall
    \/ DfsAfterSecondCall
    \/ SolveReturn

FairSpec == Spec /\ WF_vars(SolveRun)

\* MazeDrawer.__init__ runs _break_walls_r(0, 0) to its end
DrawerRun ==
    \/ \E d \in Directions : BreakWallsStep(d)
    \/ BreakWallsReturn

FairDrawerSpec == Spec /\ WF_vars(DrawerRun)

\* ---------------------------------------------------------------- input check
\* the two fields hold any two of the entries, and nothing has been made yet
InputInit ==
    /\ pc = "start"
    /\ args = NoArgs
    /\ maze = NoMaze
    /\ cells = << >>
    /\ stack = << >>
    /\ retval = "none"
    /\ result = "none"
    /\ last = NoCall
    /\ rounds = 0
    /\ startClean = FALSE
    /\ resets = 0
    /\ rng = Unseeded
    /\ entered = NoCalls
    /\ moves = << >>
    /\ \E c \in EntryInputs, r \in EntryInputs :
          input = [NoInput EXCEPT !.cols_entry = c, !.rows_entry = r]

\* CanvasFrame._validate_input() on the two fields
ValidateInput ==
    /\ input.by = "none"
    /\ input' = [input EXCEPT !.by = "_validate_input",
                              !.out = validate_input(input.cols_entry, input.rows_entry)]
    /\ UNCHANGED <<pc, args, maze, cells, stack, retval, result, last, rounds,
                   startClean, resets, rng, entered, moves>>

\* Window.draw_maze() on the two fields, up to calculate_window_sizes
CalculateWindowSizes ==
    /\ input.by = "none"
    /\ input' = [input EXCEPT !.by = "calculate_window_sizes",
                              !.out = draw_maze_sizes(input.cols_entry, input.rows_entry)]
    /\ UNCHANGED <<pc, args, maze, cells, stack, retval, result, last, rounds,
                   startClean, resets, rng, entered, moves>>

InputNext ==
    \/ ValidateInput
    \/ CalculateWindowSizes

InputSpec == InputInit /\ [][InputNext]_vars

\* ---------------------------------------------------------------- window
\* Window.draw_maze on the two fields: Maze(padding_x, padding_y, num_cols,
\* num_rows, 20, 20) with no seed; MazeDrawer(self.maze, self.canvas_frame)
\* follows.  The padding moves the drawing and nothing else: it is left 0.
DrawMaze(cols_text, rows_text) ==
    /\ pc \in {"start", "idle"}
    /\ LET out == draw_maze_sizes(cols_text, rows_text)
       IN /\ out.kind = "ok"
          /\ out.cols * out.rows <= MaxCells
          /\ ~MazeInitRaises(out.cols, out.rows, CellSize, CellSize)
          /\ args' = [num_cols |-> out.cols, num_rows |-> out.rows,
                      cell_width |-> CellSize, cell_height |-> CellSize,
                      seed |-> NoSeed]
          /\ maze' = [exists |-> TRUE, x_start |-> 0, y_start |-> 0,
                      num_cols |-> out.cols, num_rows |-> out.rows,
                      cell_width |-> CellSize, cell_height |-> CellSize]
    /\ rng' = SeedRandom(rng, NoSeed, CellSize)
    /\ pc' = "constructed"
    /\ cells' = << >>
    /\ stack' = << >>
    /\ retval' = "none"
    /\ result' = "none"
    /\ last' = NoCall
    /\ rounds' = 0
    /\ startClean' = FALSE
    /\ resets' = 0
    /\ entered' = NoCalls
    /\ moves' = << >>
    /\ UNCHANGED input

\* _dfs_r has drawn a move and is inside _animate(path=True), before its
\* call on the neighbour: the frame pushed for that call is on top
AtRedraw ==
    /\ pc = "solving"
    /\ retval = "none"
    /\ Len(stack) >= 2
    /\ Top.st = "entry"
    /\ stack[Len(stack) - 1].st \in {"call1", "call2"}

\* CanvasFrame.redraw inside _animate(path=True): root.update() runs the
\* command of a Solve button click that is waiting: Window.solve_maze, with
\* self.drawer and self.maze set, calls MazeSolver(...).solve(), whose
\* _dfs_r(0, 0) marks the start cell.  The call on the neighbour has not been
\* made yet: after a forward move the neighbour is still unvisited.
RedrawSolveClick ==
    /\ AtRedraw
    /\ rounds < MaxRounds
    /\ rounds' = rounds + 1
    /\ LET f == Top
           first == stack[Len(stack) - 1].st = "call1"
           before == IF first
                     THEN [cells EXCEPT ![f.col][f.row].visited = FALSE]
                     ELSE cells
       IN /\ startClean' = AllUnvisited(before)
          /\ cells' = DfsMark(before, 0, 0)
          /\ entered' = Called([entered EXCEPT ![<<f.col, f.row>>] = @ - 1], 0, 0)
          /\ stack' = Append(SetTop([f EXCEPT !.st = "redraw"]),
                             Frame(0, 0, "entry", << >>))
    /\ UNCHANGED <<args, pc, maze, retval, result, last, resets, rng, moves, input>>

\* the solve() of the click has returned: solve_maze drops its value,
\* root.update() and _animate return, and _dfs_r makes its call on the
\* neighbour, which marks it
RedrawSolveReturn ==
    /\ pc = "solving"
    /\ retval # "none"
    /\ stack # << >>
    /\ Top.st = "redraw"
    /\ result' = retval
    /\ retval' = "none"
    /\ cells' = DfsMark(cells, Top.col, Top.row)
    /\ entered' = Called(entered, Top.col, Top.row)
    /\ stack' = SetTop([Top EXCEPT !.st = "entry"])
    /\ UNCHANGED <<args, pc, maze, last, rounds, startClean, resets, rng, moves,
                   input>>

\* the window: the Draw and Solve buttons, a click coming when the window is
\* idle or while a solve run is redrawing.  The Reset button clears the
\* canvas and leaves the Maze as it is.
WindowNext ==
    \/ \E c \in EntryInputs, r \in EntryInputs : DrawMaze(c, r)
    \/ InitCells
    \/ CreateCells
    \/ CreateEntranceAndExit
    \/ BreakWallsCall
    \/ \E d \in Directions : BreakWallsStep(d)
    \/ BreakWallsReturn
    \/ DrawerReset
    \/ SolveCall
    \/ DfsEntry
    \/ \E d \in Directions : DfsStep(d)
    \/ DfsExhausted
    \/ DfsAfterFirstCall
    \/ DfsAfterSecondCall
    \/ SolveReturn
    \/ RedrawSolveClick
    \/ RedrawSolveReturn

WindowSpec == Init /\ [][WindowNext]_vars

\* ---------------------------------------------------------------- properties
\* the cell container holds one column for each column of the grid
Populated == DOMAIN cells = 0 .. (maze.num_cols - 1) /\ maze.exists

\* generation is over: _break_walls_r(0, 0) has returned
Generated == pc \in {"carved", "idle", "solving"}

Neighbor(p, d) ==
    CASE d = "top" -> <<p[1], p[2] - 1>> [] d = "bottom" -> <<p[1], p[2] + 1>>
      [] d = "left" -> <<p[1] - 1, p[2]>> [] d = "right" -> <<p[1] + 1, p[2]>>

HasWall(p, d) == cells[p[1]][p[2]][WallField(d)]

\* p and its neighbour in direction d are both in the grid and the wall
\* between them is cleared on both sides
Open(p, d) ==
    /\ Neighbor(p, d) \in Places
    /\ ~HasWall(p, d)
    /\ ~HasWall(Neighbor(p, d), Opposite(d))

\* the open connections, each counted once
Connections == {e \in Places \X {"right", "bottom"} : Open(e[1], e[2])}

\* flood fill over open connections
RECURSIVE Flood(_)
Flood(S) ==
    LET T == S \cup UNION {{Neighbor(p, d) : d \in {e \in Directions : Open(p, e)}} :
                             p \in S}
    IN IF T = S THEN S ELSE Flood(T)

\* C1: after generation the open connections form a spanning tree: the flood
\* fill from (0,0) reaches every cell and there are num_cols*num_rows - 1
\* open connections
C1_SpanningTree ==
    Generated =>
        /\ Flood({<<0, 0>>}) = Places
        /\ Cardinality(Connections) = maze.num_cols * maze.num_rows - 1

\* a generated grid with both dimensions above 1 (a cycle would fit in it)
\* that has a cell with three open connections
C1_Witness ==
    /\ pc = "idle"
    /\ maze.num_cols > 1 /\ maze.num_rows > 1
    /\ \E p \in Places : Cardinality({d \in Directions : Open(p, d)}) = 3

\* C2: a solve() called on a generated grid whose cells are all unvisited
\* returns, and returns True
C2_SolveReturnsTrue ==
    (pc = "solving" /\ startClean) ~> (pc = "idle" /\ result = "True")

\* a first solve() has returned True after drawing back from a dead end
\* (a cell off the path is visited)
C2_Witness ==
    /\ pc = "idle" /\ rounds = 1 /\ result = "True"
    /\ \E p \in Places : cells[p[1]][p[2]].visited /\ p[1] + p[2] > 0
          /\ Cardinality({d \in Directions : Open(p, d)}) = 1
          /\ p # <<maze.num_cols - 1, maze.num_rows - 1>>

\* C3: in every state, during and after carving, the two flags of the wall
\* between two adjacent cells of the grid agree
C3_WallsMatch ==
    Populated =>
        \A p \in Places : \A d \in Directions :
            Neighbor(p, d) \in Places =>
                (HasWall(p, d) <=> HasWall(Neighbor(p, d), Opposite(d)))

\* carving is in progress and a passage has been carved
C3_Witness ==
    /\ pc = "carving"
    /\ Len(stack) > 2
    /\ Connections # {}

\* C4 as stated: a cleared flag always has a neighbour in the grid behind it
C4_ClearedHasNeighbor ==
    Generated =>
        \A p \in Places : \A d \in Directions :
            ~HasWall(p, d) =>
                /\ Neighbor(p, d) \in Places
                /\ ~HasWall(Neighbor(p, d), Opposite(d))

\* the entrance (top of the start cell) and the exit (bottom of the end cell)
IsOpening(p, d) ==
    \/ p = <<0, 0>> /\ d = "top"
    \/ p = <<maze.num_cols - 1, maze.num_rows - 1>> /\ d = "bottom"

\* C4, amended: every cleared flag other than the entrance and the exit has a
\* neighbour in the grid whose opposite flag is cleared too, and the other
\* way round; the entrance and the exit are cleared with no neighbour
C4_ClearedHasNeighborOrOpening ==
    Generated =>
        \A p \in Places : \A d \in Directions :
            IF IsOpening(p, d)
            THEN ~HasWall(p, d) /\ Neighbor(p, d) \notin Places
            ELSE /\ ~HasWall(p, d) =>
                      /\ Neighbor(p, d) \in Places
                      /\ ~HasWall(Neighbor(p, d), Opposite(d))
                 /\ (Neighbor(p, d) \in Places
                       /\ ~HasWall(Neighbor(p, d), Opposite(d))) => ~HasWall(p, d)

\* a generated grid where a border cell other than the start and end cell
\* has a cleared flag
C4_Witness ==
    /\ pc = "idle"
    /\ \E p \in Places : \E d \in Directions :
          /\ p # <<0, 0>> /\ p # <<maze.num_cols - 1, maze.num_rows - 1>>
          /\ ~HasWall(p, d)

\* C5: after generation the start cell has no top wall and the end cell has
\* no bottom wall, for every grid size from 1 x 1
C5_EntranceAndExit ==
    Generated =>
        /\ ~cells[0][0].has_top_wall
        /\ ~cells[maze.num_cols - 1][maze.num_rows - 1].has_bottom_wall

\* a generated grid of more than one cell, and so with two distinct openings
C5_Witness ==
    /\ pc = "carved"
    /\ maze.num_cols * maze.num_rows > 1
    /\ ~cells[0][0].has_top_wall

\* C6: when MazeDrawer() has returned (and nothing has been called since),
\* every cell is unvisited
C6_UnvisitedAfterConstruction ==
    (pc = "idle" /\ rounds = 0) => AllUnvisited(cells)

\* MazeDrawer() has returned on a grid of several cells
C6_Witness ==
    /\ pc = "idle" /\ rounds = 0 /\ resets = 0
    /\ maze.num_cols > 1 /\ maze.num_rows > 1
    /\ ~cells[0][0].visited

\* C7: Maze() raises ValueError, and produces no Maze, exactly when one of
\* num_cols, num_rows, cell_width, cell_height is not positive
C7_ConstructionValidates ==
    pc # "start" =>
        IF args.num_cols <= 0 \/ args.num_rows <= 0
              \/ args.cell_width <= 0 \/ args.cell_height <= 0
        THEN pc = "error" /\ ~maze.exists
        ELSE /\ pc # "error"
             /\ maze.exists
             /\ maze.num_cols = args.num_cols /\ maze.num_rows = args.num_rows
             /\ maze.cell_width = args.cell_width
             /\ maze.cell_height = args.cell_height

\* Maze() was refused for its cell height alone
C7_Witness ==
    /\ pc = "error"
    /\ args.num_cols > 0 /\ args.num_rows > 0 /\ args.cell_width > 0
    /\ args.cell_height = 0

\* the coordinates of the latest get_cell call are inside the grid
LastInRange ==
    /\ 0 <= last.col /\ last.col < maze.num_cols
    /\ 0 <= last.row /\ last.row < maze.num_rows

\* C8: get_cell returns the cell at [col][row] for coordinates inside the grid
\* and None for all others, and never raises
C8_GetCell ==
    last.op = "get_cell" =>
        IF LastInRange
        THEN last.out = [kind |-> "cell", col |-> last.col, row |-> last.row]
        ELSE last.out.kind = "None"

\* what get_cell does in each case: None outside the grid; inside it, the
\* cell at [col][row] once the container is populated and IndexError before
GetCellOutcomes ==
    last.op = "get_cell" =>
        IF ~LastInRange THEN last.out.kind = "None"
        ELSE IF Populated
             THEN last.out = [kind |-> "cell", col |-> last.col, row |-> last.row]
             ELSE last.out.kind = "IndexError"

\* the wall flags of the grid
Walls(cs) ==
    [c \in DOMAIN cs |-> [r \in DOMAIN cs[c] |->
        [d \in Directions |-> cs[c][r][WallField(d)]]]]

\* C9: reset_visited_cells leaves every cell unvisited from any state of the
\* grid, and a second call changes nothing
C9_ResetIdempotent ==
    /\ AllUnvisited(reset_visited_cells(maze, cells))
    /\ reset_visited_cells(maze, reset_visited_cells(maze, cells))
         = reset_visited_cells(maze, cells)
    /\ last.op = "reset_visited_cells" =>
         /\ AllUnvisited(cells)
         /\ reset_visited_cells(maze, cells) = cells

\* reset_visited_cells was called twice in a row after a solve() that had
\* marked cells
C9_Witness ==
    /\ pc = "idle" /\ rounds > 0 /\ resets = 2
    /\ last.op = "reset_visited_cells"
    /\ maze.num_cols * maze.num_rows > 1

\* C10: after a solve() and a reset_visited_cells() every cell is unvisited,
\* the next solve() starts from there, and every solve() after the first
\* that starts so returns True
C10_SolveAgain ==
    /\ []((pc = "idle" /\ rounds > 0 /\ resets > 0) => AllUnvisited(cells))
    /\ [][(pc = "idle" /\ resets > 0 /\ pc' = "solving") => startClean']_vars
    /\ (pc = "solving" /\ rounds > 1 /\ startClean)
          ~> (pc = "idle" /\ result = "True")

\* a second solve(), started after a reset, has returned True
C10_Witness ==
    /\ pc = "idle" /\ rounds = 2 /\ startClean /\ result = "True"
    /\ maze.num_cols * maze.num_rows > 1

\* C11: on a 1 x 1 grid the start cell is the end cell, and solve() returns
\* True from its first call of _dfs_r: no second call, no move drawn
C11_SingleCell ==
    (Populated /\ maze.num_cols = 1 /\ maze.num_rows = 1) =>
        /\ start_cell(maze, cells).kind = "cell"
        /\ start_cell(maze, cells) = end_cell(maze, cells)
        /\ pc = "solving" =>
              /\ moves = << >>
              /\ Len(stack) <= 1
              /\ entered[<<0, 0>>] = 1
              /\ stack = << >> => retval = "True"
        /\ (pc = "idle" /\ rounds > 0) => result = "True"

\* _dfs_r(0, 0) has returned True on a 1 x 1 grid
C11_Witness ==
    /\ pc = "solving" /\ stack = << >> /\ retval = "True"
    /\ maze.num_cols = 1 /\ maze.num_rows = 1

\* C12: given a seed, a generator run is determined by the seed and the
\* dimensions: at every iteration of the loop of _break_walls_r one direction
\* and no other can come next
C12_Reproducible ==
    (pc = "carving" /\ stack # << >> /\ args.seed # NoSeed /\ Top.dirs # {}) =>
        Cardinality({d \in Directions : IsNextDirection(Top, d)}) = 1

\* the indices of the move events
Events == 1 .. Len(moves)

\* the cell _dfs_r has moved to from the frame f
MovedTo(f) ==
    LET n == get_neighbor_coords(f.col, f.row, f.cur) IN <<n.col, n.row>>

\* C13: in a solve run no move event is emitted twice; every backtrack event
\* goes back along an earlier forward move; a forward move is emitted exactly
\* when _dfs_r moves to a neighbour, and a backtrack exactly when the call on
\* that neighbour has returned False to the frame that moved
C13_MoveEvents ==
    /\ [](pc = "solving" =>
            /\ \A i, j \in Events : i # j => moves[i] # moves[j]
            /\ \A j \in Events : moves[j].undo =>
                  \E i \in 1 .. (j - 1) :
                      /\ ~moves[i].undo
                      /\ moves[i].from = moves[j].to
                      /\ moves[i].to = moves[j].from)
    /\ [][(pc = "solving" /\ pc' = "solving" /\ moves' # moves) =>
            /\ Len(moves') = Len(moves) + 1
            /\ SubSeq(moves', 1, Len(moves)) = moves
            /\ LET e == moves'[Len(moves')]
               IN IF e.undo
                  THEN /\ retval = "False"
                       /\ Top.st = "call1"
                       /\ e.to = <<Top.col, Top.row>>
                       /\ e.from = MovedTo(Top)
                  ELSE /\ retval = "none"
                       /\ Top.st = "loop"
                       /\ e.from = <<Top.col, Top.row>>
                       /\ Len(stack') = Len(stack) + 1
                       /\ e.to = <<stack'[Len(stack')].col, stack'[Len(stack')].row>>]_vars
    /\ [][(pc = "solving" /\ stack # << >> /\ Len(stack') = Len(stack) + 1) =>
            IF Top.st = "loop"
            THEN Len(moves') = Len(moves) + 1 /\ ~moves'[Len(moves')].undo
            ELSE /\ Top.st = "call1" /\ retval = "False"
                 /\ Len(moves') = Len(moves) + 1 /\ moves'[Len(moves')].undo]_vars

\* a dead end was drawn back and the search has moved on from there
C13_Witness ==
    /\ pc = "solving"
    /\ \E j \in Events : moves[j].undo /\ j < Len(moves) /\ ~moves[Len(moves)].undo

\* C14: once MazeDrawer has initialised the Maze, during generation and
\* solving, the container holds num_cols columns of num_rows cells each, for
\* the num_cols and num_rows the Maze was made with, and the cell at
\* [col][row] is the one drawn at column col and row row
C14_Container ==
    pc \in {"cells_set", "cells_drawn", "entrance", "carving", "carved", "idle",
            "solving"} =>
        /\ maze.num_cols = args.num_cols /\ maze.num_rows = args.num_rows
        /\ DOMAIN cells = 0 .. (maze.num_cols - 1)
        /\ \A c \in DOMAIN cells :
              /\ DOMAIN cells[c] = 0 .. (maze.num_rows - 1)
              /\ pc # "cells_set" =>
                    \A r \in DOMAIN cells[c] :
                        /\ cells[c][r].x1 = maze.x_start + c * maze.cell_width
                        /\ cells[c][r].y1 = maze.y_start + r * maze.cell_height

\* a solve run is under way on a grid with more columns than rows
C14_Witness ==
    /\ pc = "solving" /\ Len(stack) > 2
    /\ maze.num_cols = 3 /\ maze.num_rows = 2

\* the row of EntryTable for a text
Entry(text) == EntryTable[CHOOSE i \in DOMAIN EntryTable : EntryTable[i].text = text]

\* the text denotes an integer from 2 to 50
InRange(text) ==
    Entry(text).number /\ 2 <= Entry(text).value /\ Entry(text).value <= 50

\* C15: both _validate_input and calculate_window_sizes (behind the int() of
\* draw_maze) raise ValueError when the columns or the rows entry is no
\* integer, is below 2 or is above 50, and give back the two numbers typed
\* when both are integers from 2 to 50
C15_InputValidation ==
    input.by # "none" =>
        IF InRange(input.cols_entry) /\ InRange(input.rows_entry)
        THEN input.out = Accepted(Entry(input.cols_entry).value,
                                  Entry(input.rows_entry).value)
        ELSE input.out.kind = "ValueError"

\* the largest number of columns and the smallest number of rows were taken
C15_Witness ==
    /\ input.by = "calculate_window_sizes"
    /\ input.out = Accepted(50, 2)

\* the place p holds a visited cell
Visited(p) == cells[p[1]][p[2]].visited

\* C16: every forward move goes from the cell of the running _dfs_r to its
\* neighbour in the direction the loop has chosen; that neighbour is inside
\* the grid, was unvisited before the move, and the wall between the two
\* cells is cleared on both sides
C16_ForwardMoves ==
    [][(pc = "solving" /\ Len(moves') = Len(moves) + 1
           /\ ~moves'[Len(moves')].undo) =>
          LET e == moves'[Len(moves')]
              d == stack'[Len(stack)].cur
          IN /\ e.from = <<Top.col, Top.row>>
             /\ d \in Top.dirs
             /\ e.to = Neighbor(e.from, d)
             /\ e.to \in Places
             /\ ~Visited(e.to)
             /\ Open(e.from, d)]_vars

\* three forward moves in a row on a grid with a wall left between two cells
C16_Witness ==
    /\ pc = "solving"
    /\ Len(moves) >= 3 /\ \A i \in Events : ~moves[i].undo
    /\ \E p \in Places : \E d \in Directions :
          Neighbor(p, d) \in Places /\ HasWall(p, d)

\* C17: once a call of _dfs_r has returned True, every enclosing call returns
\* True in its turn and solve() returns True: no direction is tried, no move
\* is drawn, no cell is marked and no call is made on the way
C17_TruePropagates ==
    [][(pc = "solving" /\ retval = "True") =>
          /\ cells' = cells
          /\ IF stack = << >>
             THEN pc' = "idle" /\ result' = "True"
             ELSE /\ stack' = Pop
                  /\ retval' = "True"
                  /\ UNCHANGED <<pc, moves, entered>>]_vars

\* True is on its way up while a frame has directions left and a dead end
\* was drawn back earlier
C17_Witness ==
    /\ pc = "solving" /\ retval = "True" /\ Len(stack) >= 2
    /\ \E i \in 1 .. Len(stack) : stack[i].dirs # {}
    /\ \E j \in Events : moves[j].undo

\* C18: during generation and during a solve run there are never more
\* active frames than cells
C18_DepthBound ==
    pc \in {"carving", "solving"} => Len(stack) <= maze.num_cols * maze.num_rows

\* a solve run is as deep as a 3 x 2 grid has cells
C18_Witness ==
    /\ pc = "solving"
    /\ maze.num_cols = 3 /\ maze.num_rows = 2
    /\ Len(stack) = 6

\* C19: in a solve run _dfs_r is entered at most once on each cell
C19_EnteredOnce ==
    pc = "solving" => \A p \in Places : entered[p] <= 1

\* the number of visited cells
VisitedCount == Cardinality({p \in Places : Visited(p)})

\* C20: generation ends; every recursive call of _break_walls_r is made on a
\* cell that was unvisited and adds one to the visited cells, which are never
\* more than num_cols * num_rows; no cell is entered twice, and when
\* _break_walls_r(0, 0) has returned every cell has been entered once
C20_GenerationTerminates ==
    /\ [](pc \in {"carving", "carved"} =>
            /\ VisitedCount <= maze.num_cols * maze.num_rows
            /\ \A p \in Places : entered[p] <= 1
            /\ pc = "carved" => \A p \in Places : entered[p] = 1)
    /\ [][(pc = "carving" /\ Len(stack') = Len(stack) + 1) =>
            LET f == stack'[Len(stack')]
            IN /\ ~Visited(<<f.col, f.row>>)
               /\ cells'[f.col][f.row].visited
               /\ VisitedCount' = VisitedCount + 1]_vars
    /\ (pc = "carving") ~> (pc = "carved")

\* _break_walls_r(0, 0) has returned on a 2 x 3 grid
C20_Witness ==
    /\ pc = "carved"
    /\ maze.num_cols = 2 /\ maze.num_rows = 3
    /\ \A p \in Places : entered[p] = 1

\* the cells _dfs_r has been called on in the run in progress
EnteredCells == {p \in Places : entered[p] >= 1}

\* the cells the forward moves of the run in progress went to
MovedInto == {moves[i].to : i \in {j \in Events : ~moves[j].undo}}

\* _dfs_r(0, 0) has returned and solve() is about to
SolveFinished == pc = "solving" /\ stack = << >> /\ retval # "none"

\* C21 as stated: when any solve run finishes, visited is True on the cells
\* the run entered and on no other cell
C21_VisitedIsEntered ==
    SolveFinished => {p \in Places : Visited(p)} = EnteredCells

\* C21, amended: in a solve run that started with every cell unvisited, at
\* every point and so when it finishes, visited is True on exactly the cells
\* _dfs_r was called on, which are the start cell and the cells the forward
\* moves went to, drawn back or not
C21_VisitedIsEnteredFromClean ==
    (pc = "solving" /\ startClean) =>
        /\ {p \in Places : Visited(p)} = EnteredCells
        /\ EnteredCells = {<<0, 0>>} \cup MovedInto

\* a solve run from a clean grid has finished with True after drawing back
\* from a dead end, and a cell was never entered
C21_Witness ==
    /\ SolveFinished /\ startClean /\ retval = "True"
    /\ \E j \in Events : moves[j].undo
    /\ \E p \in Places : ~Visited(p) /\ entered[p] = 0

\* C22: the wall flags change only while MazeDrawer initialises, opens and
\* carves the grid: no step from the end of carving on, none of a solve run
\* and no reset_visited_cells changes a wall flag of any cell
C22_WallsOnlyByGenerator ==
    /\ [](Walls(reset_visited_cells(maze, cells)) = Walls(cells))
    /\ [][(pc \in {"carved", "idle", "solving"}) =>
            Walls(cells') = Walls(cells)]_vars
    /\ [][(Walls(cells') # Walls(cells)) =>
            (pc \in {"constructed", "cells_drawn", "carving"})]_vars

\* reset_visited_cells has run after two solve runs on a grid with carved
\* passages
C22_Witness ==
    /\ pc = "idle" /\ rounds = 2 /\ last.op = "reset_visited_cells"
    /\ Connections # {}
    /\ AllUnvisited(cells)

\* the flag of p in direction d is on the outer border of the grid
OnBorder(p, d) == Neighbor(p, d) \notin Places

\* the flag of p in direction d after the step
HasWallNext(p, d) == cells'[p[1]][p[2]][WallField(d)]

\* C24: after generation every flag on the outer border is present except
\* the top flag of the start cell and the bottom flag of the end cell;
\* _create_entrance_and_exit clears these two and changes no other flag;
\* _break_walls_r changes only flags between two cells of the grid; and no
\* step sets a cleared flag back to True
C24_BorderWalls ==
    /\ [](Generated =>
            \A p \in Places : \A d \in Directions :
                OnBorder(p, d) => (HasWall(p, d) <=> ~IsOpening(p, d)))
    /\ [][(pc = "cells_drawn") =>
            \A p \in Places : \A d \in Directions :
                IF IsOpening(p, d)
                THEN HasWall(p, d) /\ ~HasWallNext(p, d)
                ELSE HasWallNext(p, d) = HasWall(p, d)]_vars
    /\ [][(pc \in {"entrance", "carving"}) =>
            \A p \in Places : \A d \in Directions :
                (HasWallNext(p, d) # HasWall(p, d)) => ~OnBorder(p, d)]_vars
    /\ [][Populated =>
            \A p \in Places : \A d \in Directions :
                ~HasWall(p, d) => ~HasWallNext(p, d)]_vars

\* carving is over on a grid of 3 x 2 cells where a corner cell other than
\* the start and the end cell has a single cleared flag
C24_Witness ==
    /\ pc = "carved"
    /\ maze.num_cols = 3 /\ maze.num_rows = 2
    /\ Cardinality({d \in Directions : ~HasWall(<<2, 0>>, d)}) = 1

\* the place of the end cell
EndPlace == <<maze.num_cols - 1, maze.num_rows - 1>>

\* flood fill over open connections that never enters the place x
RECURSIVE FloodAvoiding(_, _)
FloodAvoiding(S, x) ==
    LET T == S \cup (UNION {{Neighbor(p, d) : d \in {e \in Directions : Open(p, e)}} :
                              p \in S} \ {x})
    IN IF T = S THEN S ELSE FloodAvoiding(T, x)

\* the places every walk over open connections from the start cell to the
\* end cell passes
PathCells ==
    {p \in Places : \/ p \in {<<0, 0>>, EndPlace}
                    \/ EndPlace \notin FloodAvoiding({<<0, 0>>}, p)}

\* from p on, the walk to the end cell over the places of PathCells not seen
RECURSIVE PathFrom(_, _)
PathFrom(p, seen) ==
    IF p = EndPlace THEN <<p>>
    ELSE LET q == CHOOSE q \in PathCells \ seen :
                      \E d \in Directions : Open(p, d) /\ Neighbor(p, d) = q
         IN <<p>> \o PathFrom(q, seen \cup {q})

\* the simple path of open connections from the start cell to the end cell
TreePath == PathFrom(<<0, 0>>, {<<0, 0>>})

\* the forward move of event i was drawn back later
Undone(i) ==
    \E j \in Events : /\ j > i /\ moves[j].undo
                      /\ moves[j].from = moves[i].to /\ moves[j].to = moves[i].from

\* the forward moves never drawn back, in the order they were drawn
Kept == {i \in Events : ~moves[i].undo /\ ~Undone(i)}
KeptMoves ==
    [k \in 1 .. Cardinality(Kept) |->
        moves[CHOOSE i \in Kept : Cardinality({j \in Kept : j < i}) = k - 1]]

\* C25: when a solve run returns True, whatever the orders of its shuffles,
\* the forward moves never drawn back go, in order, along the one simple
\* path of open connections from (0,0) to the end cell (a path through
\* places every walk from start to end passes, so there is no other), and
\* the forward moves less the backtrack moves number the steps of that path
C25_AcceptedPath ==
    (SolveFinished /\ retval = "True") =>
        /\ \A k \in 1 .. (Len(TreePath) - 1) :
              \E d \in Directions : /\ Open(TreePath[k], d)
                                    /\ Neighbor(TreePath[k], d) = TreePath[k + 1]
        /\ \A k, l \in DOMAIN TreePath : k # l => TreePath[k] # TreePath[l]
        /\ {TreePath[k] : k \in DOMAIN TreePath} = PathCells
        /\ Len(KeptMoves) = Len(TreePath) - 1
        /\ \A k \in DOMAIN KeptMoves :
              KeptMoves[k].from = TreePath[k] /\ KeptMoves[k].to = TreePath[k + 1]
        /\ Cardinality({i \in Events : ~moves[i].undo})
              - Cardinality({i \in Events : moves[i].undo}) = Len(TreePath) - 1

\* a solve run has returned True along a path of three steps after drawing
\* back from a dead end
C25_Witness ==
    /\ SolveFinished /\ retval = "True"
    /\ Len(TreePath) = 4
    /\ \E i \in Events : Undone(i)

\* what solve() returns when it starts on a grid with visited cells
SecondResult == IF maze.num_cols * maze.num_rows = 1 THEN "True" ELSE "False"

\* C26: a solve run leaves visited cells behind and only reset_visited_cells
\* clears them, so a solve() called with no reset since the run before it does
\* not start from a clean grid; such a run draws no move and returns False on
\* a grid of more than one cell, and True on a 1 x 1 grid
C26_SecondSolve ==
    /\ [](SolveFinished => ~AllUnvisited(cells))
    /\ [][(pc = "idle" /\ rounds > 0 /\ ~AllUnvisited(cells)
              /\ AllUnvisited(cells')) => last'.op = "reset_visited_cells"]_vars
    /\ []((pc = "solving" /\ ~startClean) =>
            /\ moves = << >>
            /\ retval # "none" => retval = SecondResult)
    /\ []((pc = "idle" /\ rounds > 0 /\ ~startClean) => result = SecondResult)

\* a second solve(), called with no reset after the first, has returned False
\* on a 3 x 2 grid where the first run left a cell unvisited
C26_Witness ==
    /\ pc = "idle" /\ rounds = 2 /\ ~startClean /\ result = "False"
    /\ maze.num_cols = 3 /\ maze.num_rows = 2
    /\ \E p \in Places : ~Visited(p)

\* a generation run or a solve run is in progress
RunInProgress ==
    pc \in {"constructed", "cells_set", "cells_drawn", "entrance", "carving",
            "carved", "solving"}

\* C23: while a generation run or a solve run is in progress, its redraws
\* included, no solve() is called and no generation starts on the grid
C23_OneAlgorithm ==
    [][RunInProgress =>
          /\ rounds' = rounds
          /\ pc' = "constructed" => pc = "constructed"]_vars

====
